---- MODULE Spec2Model ----
(***************************************************************************)
(* Model of the Clarifia backend (src/server.js): an Express application   *)
(* with the middleware chain cors -> express.json -> rateLimit, the route  *)
(* GET /health and the route POST /analyze (requireAppKey, then the async  *)
(* handler that calls the upstream Responses API once and parses the       *)
(* text it returns).                                                       *)
(*                                                                         *)
(* Strings are run-length encoded: a string is a sequence of runs          *)
(* [ch |-> c, n |-> k] standing for k copies of the character c, so that   *)
(* texts of 12 000 and 2 000 characters are values the model can hold.     *)
(***************************************************************************)
EXTENDS Integers, Sequences, FiniteSets

\* ------------------------------------------------------------------------
\* Program constants
\* ------------------------------------------------------------------------
RateMax == 20
MaxTextLen == 12000
RawSliceLen == 2000

\* ------------------------------------------------------------------------
\* Bounds of the model
\* ------------------------------------------------------------------------
\* the rate limiter's counter of one source is followed up to this value
MaxHits == 22
\* upstream calls that may be suspended at the await of fetch at one time
MaxPending == 2
\* output items of an upstream reply, and content blocks of one item
MaxItems == 2
MaxBlocks == 1

\* ------------------------------------------------------------------------
\* Run-length encoded strings
\* ------------------------------------------------------------------------
Run(c, k) == [ch |-> c, n |-> k]

Str(c, k) == IF k = 0 THEN << >> ELSE << Run(c, k) >>

RECURSIVE StrLen(_)
StrLen(s) == IF s = << >> THEN 0 ELSE Head(s).n + StrLen(Tail(s))

\* canonical form: no empty run, no two adjacent runs of one character
RECURSIVE Norm(_)
Norm(s) ==
    IF s = << >> THEN << >>
    ELSE IF Head(s).n = 0 THEN Norm(Tail(s))
    ELSE LET r == Norm(Tail(s)) IN
         IF r # << >> /\ Head(r).ch = Head(s).ch
         THEN << Run(Head(s).ch, Head(s).n + Head(r).n) >> \o Tail(r)
         ELSE << Head(s) >> \o r

Concat(s, t) == Norm(s \o t)

\* the characters String.prototype.trim removes and JSON treats as blank
IsWhite(c) == c \in {" ", "\n"}

RECURSIVE TrimStart(_)
TrimStart(s) ==
    IF s = << >> THEN << >>
    ELSE IF IsWhite(Head(s).ch) \/ Head(s).n = 0 THEN TrimStart(Tail(s))
    ELSE s

RECURSIVE TrimEnd(_)
TrimEnd(s) ==
    IF s = << >> THEN << >>
    ELSE IF IsWhite(s[Len(s)].ch) \/ s[Len(s)].n = 0
         THEN TrimEnd(SubSeq(s, 1, Len(s) - 1))
    ELSE s

\* String.prototype.trim
Trim(s) == Norm(TrimEnd(TrimStart(s)))

\* String.prototype.slice(0, k)
RECURSIVE Slice(_, _)
Slice(s, k) ==
    IF s = << >> \/ k <= 0 THEN << >>
    ELSE IF Head(s).n >= k THEN Norm(<< Run(Head(s).ch, k) >>)
    ELSE Concat(<< Head(s) >>, Slice(Tail(s), k - Head(s).n))

\* Array.prototype.join(sep)
RECURSIVE Join(_, _)
Join(list, sep) ==
    IF list = << >> THEN << >>
    ELSE IF Len(list) = 1 THEN Norm(Head(list))
    ELSE Concat(Concat(Head(list), sep), Join(Tail(list), sep))

NewLine == Str("\n", 1)

\* ------------------------------------------------------------------------
\* JSON.parse, on the alphabet of the model: blanks, "{", "}", the digit
\* "1" and the letter "a".  The JSON texts over it are  ws* value ws*  with
\* value = "{" ws* "}"  (the empty object)  or  "1"+  (a number).
\* ------------------------------------------------------------------------
AllWhite(s) == \A i \in 1..Len(s) : IsWhite(s[i].ch)

JsonValid(s) ==
    LET t == Trim(s) IN
    \/ Len(t) = 1 /\ t[1].ch = "1"
    \/ /\ Len(t) >= 2
       /\ t[1] = Run("{", 1)
       /\ t[Len(t)] = Run("}", 1)
       /\ AllWhite(SubSeq(t, 2, Len(t) - 1))

\* the value JSON.parse returns for a valid text
JsonParse(s) ==
    LET t == Trim(s) IN
    IF t[1].ch = "1" THEN [t |-> "number", digits |-> t[1].n]
    ELSE [t |-> "object", digits |-> 0]

\* ------------------------------------------------------------------------
\* State
\* ------------------------------------------------------------------------
VARIABLES
    APP_KEY,         \* process.env.CLARIFIA_APP_KEY, read once at start-up
    OPENAI_API_KEY,  \* process.env.OPENAI_API_KEY, read once at start-up
    hits,            \* the rate limiter's store: requests counted per source
                     \* address in the current window
    cur,             \* the request whose code is running (or has just been
                     \* answered): Node runs one handler at a time
    pending,         \* the requests suspended at `await fetch(...)`
    probe            \* an upstream reply, and the response the handler makes of it

vars == << APP_KEY, OPENAI_API_KEY, hits, cur, pending, probe >>

Sources == {"ip1", "ip2"}

\* ------------------------------------------------------------------------
\* Values of req.body.text
\* ------------------------------------------------------------------------
\* k = "undefined": no text field (or no body); "falsy": null, 0, false;
\* "truthy": a non-string such as 5 or {}; "string": the string s
TextUndefined == [k |-> "undefined", s |-> << >>]
TextFalsy == [k |-> "falsy", s |-> << >>]
TextTruthy == [k |-> "truthy", s |-> << >>]
TextString(s) == [k |-> "string", s |-> s]

Texts ==
    { TextUndefined, TextFalsy, TextTruthy }
    \cup { TextString(s) : s \in
            { << >>,
              Str(" ", 3),
              Str(" ", MaxTextLen + 1),
              Str("a", 1),
              << Run(" ", 1), Run("a", 2), Run("\n", 1) >>,
              Str("a", MaxTextLen),
              Str("a", MaxTextLen + 1),
              << Run(" ", 1), Run("a", MaxTextLen), Run(" ", 1) >>,
              << Run("a", MaxTextLen), Run(" ", 1), Run("a", 1) >> } }

\* a body express.json accepts (ok) or rejects as malformed JSON
Bodies ==
    { [ok |-> FALSE, text |-> TextUndefined] }
    \cup { [ok |-> TRUE, text |-> t] : t \in Texts }

\* the X-APP-KEY header: absent, a wrong value, the configured secret
Keys == {"undefined", "wrong", "secret"}

\* every request one client can send
Requests ==
    [src : {"ip1"}, route : {"health", "analyze"}, key : Keys, body : Bodies]

\* the requests of two clients: a health check, and an analysis with a
\* valid text, with a wrong key, with a malformed body
RateRequests ==
    [src : Sources, route : {"health"}, key : {"undefined"},
     body : {[ok |-> TRUE, text |-> TextUndefined]}]
    \cup [src : Sources, route : {"analyze"}, key : {"secret", "wrong"},
          body : {[ok |-> TRUE, text |-> TextString(Str("a", 1))]}]
    \cup [src : Sources, route : {"analyze"}, key : {"secret"},
          body : {[ok |-> FALSE, text |-> TextUndefined]}]

\* ------------------------------------------------------------------------
\* Responses
\* ------------------------------------------------------------------------
\* res.status(st).json(val): a JSON body, val the object sent
Json(st, val) == [status |-> st, fmt |-> "json", val |-> val]

\* a body that is no JSON document: the rate limiter's default message
\* (text) and the page of Express's default error handler (html)
NotJson(st, kind, msg) == [status |-> st, fmt |-> kind, val |-> [message |-> msg]]

NoResponse == [status |-> 0, fmt |-> "none", val |-> [message |-> ""]]

\* String(e) of a caught exception, and an upstream error text
Thrown(name) == [of |-> name, s |-> << >>]
UpstreamText(s) == [of |-> "upstream", s |-> s]

\* (the message of TextTooLongRes is written without its accent)
Unauthorized == Json(401, [error |-> "Unauthorized"])
TextRequired == Json(400, [error |-> "Le champ 'text' est requis."])
TextTooLongRes ==
    Json(400, [error |-> "Texte trop long (max ~12 000 caracteres pour le MVP)."])
Misconfigured ==
    Json(500, [error |-> "Server misconfigured (missing OPENAI_API_KEY)"])
BadGateway(errText) ==
    Json(502, [error |-> "OpenAI request failed", details |-> UpstreamText(errText)])
InvalidAiJsonWholeRaw(raw) ==
    Json(500, [error |-> "AI did not return valid JSON. Adjust prompt.",
               raw |-> Norm(raw)])
InvalidAiJson(raw) ==
    Json(500, [error |-> "AI did not return valid JSON. Adjust prompt.",
               raw |-> Slice(raw, RawSliceLen)])
ServerError(name) ==
    Json(500, [error |-> "Server error", details |-> Thrown(name)])
HealthOk == Json(200, [ok |-> TRUE])
TooManyRequests ==
    NotJson(429, "text", "Too many requests, please try again later.")
BodyParseFailed == NotJson(400, "html", "SyntaxError")

\* ------------------------------------------------------------------------
\* Upstream replies
\* ------------------------------------------------------------------------
\* a content block: its type and its text (hasText = FALSE: no text field)
Block(type, hasText, text) == [type |-> type, hasText |-> hasText, text |-> text]

\* an output item: its content list (hasContent = FALSE: no content field)
Item(hasContent, content) == [hasContent |-> hasContent, content |-> content]

\* the decoded body of a success reply: output_text (def = FALSE: absent)
\* and output (isArray = FALSE: absent or no array)
Data(hasDirect, direct, isArray, items) ==
    [output_text |-> [def |-> hasDirect, s |-> direct],
     output |-> [isArray |-> isArray, items |-> items]]

NoData == Data(FALSE, << >>, FALSE, << >>)

\* fetch rejects (transport failure)
FetchRejects ==
    [kind |-> "reject", ok |-> FALSE, decodable |-> FALSE,
     errText |-> << >>, data |-> NoData]
\* a reply with a non-success status and the body errText
FetchNotOk(errText) ==
    [kind |-> "response", ok |-> FALSE, decodable |-> FALSE,
     errText |-> errText, data |-> NoData]
\* a success reply whose body is no JSON document: r.json() rejects
FetchOkUndecodable ==
    [kind |-> "response", ok |-> TRUE, decodable |-> FALSE,
     errText |-> << >>, data |-> NoData]
\* a success reply whose body decodes to data
FetchOk(data) ==
    [kind |-> "response", ok |-> TRUE, decodable |-> TRUE,
     errText |-> << >>, data |-> data]

\* ------------------------------------------------------------------------
\* POST /analyze after the await: lines 105-138
\* ------------------------------------------------------------------------
\* o.content || []
ContentOf(o) == IF o.hasContent THEN o.content ELSE << >>

\* data.output.flatMap((o) => o.content || [])
RECURSIVE FlatMapContent(_)
FlatMapContent(items) ==
    IF items = << >> THEN << >>
    ELSE ContentOf(Head(items)) \o FlatMapContent(Tail(items))

IsTextualOnlyOutputText(c) == c.type = "output_text"

\* c.type === "output_text" || c.type === "text"
IsTextual(c) == c.type = "output_text" \/ c.type = "text"

\* .filter(...)
RECURSIVE FilterTextual(_)
FilterTextual(blocks) ==
    IF blocks = << >> THEN << >>
    ELSE IF IsTextual(Head(blocks))
         THEN << Head(blocks) >> \o FilterTextual(Tail(blocks))
         ELSE FilterTextual(Tail(blocks))

\* c.text || ""
BlockText(c) == IF c.hasText THEN Norm(c.text) ELSE << >>

\* .map((c) => c.text || "")
MapText(blocks) == [i \in 1..Len(blocks) |-> BlockText(blocks[i])]

\* a string is truthy when it is not empty
Truthy(hasIt, s) == hasIt /\ StrLen(s) > 0

\* const raw = data.output_text || (Array.isArray(data.output) ? ... : "")
ExtractRaw(data) ==
    IF Truthy(data.output_text.def, data.output_text.s)
    THEN Norm(data.output_text.s)
    ELSE IF data.output.isArray
         THEN Join(MapText(FilterTextual(FlatMapContent(data.output.items))), NewLine)
         ELSE << >>

HandleReplyNoStatusCheck(reply) ==
    IF reply.kind = "reject" THEN ServerError("FetchError")
    ELSE IF ~reply.decodable THEN ServerError("SyntaxError")
    ELSE LET raw == ExtractRaw(reply.data) IN
         IF JsonValid(raw) THEN Json(200, JsonParse(raw))
         ELSE InvalidAiJson(raw)

\* the response the handler sends once the await of fetch has settled
HandleReply(reply) ==
    IF reply.kind = "reject" THEN ServerError("FetchError")
    ELSE IF ~reply.ok THEN BadGateway(reply.errText)
    ELSE IF ~reply.decodable THEN ServerError("SyntaxError")
    ELSE LET raw == ExtractRaw(reply.data) IN
         IF JsonValid(raw) THEN Json(200, JsonParse(raw))
         ELSE InvalidAiJson(raw)

\* ------------------------------------------------------------------------
\* POST /analyze up to the await: lines 51-103
\* ------------------------------------------------------------------------
\* (req.body?.text || ""): "" for a missing or falsy text, the value itself
\* otherwise
OrEmpty(t) ==
    IF t.k \in {"undefined", "falsy"} \/ (t.k = "string" /\ StrLen(t.s) = 0)
    THEN TextString(<< >>)
    ELSE t

TextTooLongAtLimit(text) == StrLen(text) >= MaxTextLen

\* text.length > 12000
TextTooLong(text) == StrLen(text) > MaxTextLen

\* !OPENAI_API_KEY
NoUpstreamKey == OPENAI_API_KEY = "undefined"

Respond(res) == [fetch |-> FALSE, res |-> res, input |-> << >>]
CallUpstream(text) == [fetch |-> TRUE, res |-> NoResponse, input |-> text]

BeforeFetchKeyFirst(req) ==
    LET v == OrEmpty(req.body.text) IN
    IF v.k # "string" THEN Respond(ServerError("TypeError"))
    ELSE LET text == Trim(v.s) IN
         IF NoUpstreamKey THEN Respond(Misconfigured)
         ELSE IF StrLen(text) = 0 THEN Respond(TextRequired)
         ELSE IF TextTooLong(text) THEN Respond(TextTooLongRes)
         ELSE CallUpstream(text)

\* what the handler does with a request before it suspends or answers
BeforeFetch(req) ==
    LET v == OrEmpty(req.body.text) IN
    IF v.k # "string" THEN Respond(ServerError("TypeError"))   \* .trim is no function
    ELSE LET text == Trim(v.s) IN
         IF StrLen(text) = 0 THEN Respond(TextRequired)
         ELSE IF TextTooLong(text) THEN Respond(TextTooLongRes)
         ELSE IF NoUpstreamKey THEN Respond(Misconfigured)
         ELSE CallUpstream(text)

\* ------------------------------------------------------------------------
\* Middleware
\* ------------------------------------------------------------------------
AppKeyRejectedWhenSet(key) == key # APP_KEY

\* !APP_KEY || key !== APP_KEY
AppKeyRejected(key) == APP_KEY = "undefined" \/ key # APP_KEY

OverLimitAtMax(totalHits) == totalHits >= RateMax

\* totalHits > max
OverLimit(totalHits) == totalHits > RateMax

\* requireAppKey mounted ahead of the rate limiter
StageAfterAuthFirst(stage, route) ==
    CASE stage = "express.json" ->
            IF route = "analyze" THEN "requireAppKey" ELSE "rateLimit"
      [] stage = "requireAppKey" -> "rateLimit"
      [] stage = "rateLimit" ->
            IF route = "analyze" THEN "analyze" ELSE "health"
      [] OTHER -> "done"

\* requireAppKey mounted for every route
StageAfterAuthEverywhere(stage, route) ==
    CASE stage = "express.json" -> "rateLimit"
      [] stage = "rateLimit" -> "requireAppKey"
      [] stage = "requireAppKey" ->
            IF route = "analyze" THEN "analyze" ELSE "health"
      [] OTHER -> "done"

\* the order in which Express runs what is mounted: app.use(express.json),
\* app.use(rateLimit), then the matching route with its own middleware
StageAfter(stage, route) ==
    CASE stage = "express.json" -> "rateLimit"
      [] stage = "rateLimit" ->
            IF route = "analyze" THEN "requireAppKey" ELSE "health"
      [] stage = "requireAppKey" -> "analyze"
      [] OTHER -> "done"

\* ------------------------------------------------------------------------
\* Requests in progress
\* ------------------------------------------------------------------------
NoRequest ==
    [src |-> "ip1", route |-> "health", key |-> "undefined",
     body |-> [ok |-> TRUE, text |-> TextUndefined]]

\* pc: the code that runs next for the request; trail: the stages it has
\* entered, in order; calls: the fetch calls made for it; input: the text
\* of the upstream payload; reply: what fetch settled with; res: the
\* response sent
Idle ==
    [pc |-> "idle", req |-> NoRequest, trail |-> << >>, calls |-> 0,
     input |-> << >>, reply |-> FetchRejects, res |-> NoResponse]

Enter(c, stage) == [c EXCEPT !.trail = Append(@, stage)]

Send(c, res) == [c EXCEPT !.pc = "done", !.res = res]

Free == cur.pc \in {"idle", "done"}

\* stage: "settled" (fetch has settled with reply), "answered" (the handler
\* has run: raw is the text it extracted, res the response it sent)
NoProbe ==
    [stage |-> "none", reply |-> FetchRejects, raw |-> << >>, res |-> NoResponse]

Init ==
    /\ APP_KEY \in {"undefined", "secret"}
    /\ OPENAI_API_KEY \in {"undefined", "sk"}
    /\ hits = [s \in Sources |-> 0]
    /\ cur = Idle
    /\ pending = << >>
    /\ probe = NoProbe

\* a request has been read from the socket and enters the middleware
\* chain; requests are admitted while fewer than MaxPending are suspended
Arrive(reqs) ==
    /\ Free
    /\ Len(pending) < MaxPending
    /\ \E r \in reqs : cur' = [Idle EXCEPT !.pc = "express.json", !.req = r]
    /\ UNCHANGED << APP_KEY, OPENAI_API_KEY, hits, pending, probe >>

\* app.use(express.json(...)): a malformed body goes to Express's default
\* error handler, which skips every later middleware and route
ExpressJson ==
    /\ cur.pc = "express.json"
    /\ LET c == Enter(cur, "express.json") IN
       cur' = IF ~cur.req.body.ok THEN Send(c, BodyParseFailed)
              ELSE [c EXCEPT !.pc = StageAfter("express.json", cur.req.route)]
    /\ UNCHANGED << APP_KEY, OPENAI_API_KEY, hits, pending, probe >>

\* app.use(rateLimit({windowMs, max})): count the request, reject it when
\* the count of its source exceeds max
RateLimit ==
    /\ cur.pc = "rateLimit"
    /\ hits[cur.req.src] < MaxHits
    /\ LET totalHits == hits[cur.req.src] + 1
           c == Enter(cur, "rateLimit") IN
       /\ hits' = [hits EXCEPT ![cur.req.src] = totalHits]
       /\ cur' = IF OverLimit(totalHits) THEN Send(c, TooManyRequests)
                 ELSE [c EXCEPT !.pc = StageAfter("rateLimit", cur.req.route)]
    /\ UNCHANGED << APP_KEY, OPENAI_API_KEY, pending, probe >>

\* the window (windowMs) of a source ends: its count starts again.  A store
\* that resets every source at once does so by one such step per source.
ResetWindow ==
    /\ \E s \in Sources :
          /\ hits[s] > 0
          /\ hits' = [hits EXCEPT ![s] = 0]
    /\ UNCHANGED << APP_KEY, OPENAI_API_KEY, cur, pending, probe >>

\* app.get("/health")
Health ==
    /\ cur.pc = "health"
    /\ cur' = Send(Enter(cur, "health"), HealthOk)
    /\ UNCHANGED << APP_KEY, OPENAI_API_KEY, hits, pending, probe >>

\* requireAppKey
RequireAppKey ==
    /\ cur.pc = "requireAppKey"
    /\ LET c == Enter(cur, "requireAppKey") IN
       cur' = IF AppKeyRejected(cur.req.key) THEN Send(c, Unauthorized)
              ELSE [c EXCEPT !.pc = StageAfter("requireAppKey", cur.req.route)]
    /\ UNCHANGED << APP_KEY, OPENAI_API_KEY, hits, pending, probe >>

\* the handler of POST /analyze, up to its response or to the await of fetch
Analyze ==
    /\ cur.pc = "analyze"
    /\ LET c == Enter(cur, "analyze")
           b == BeforeFetch(cur.req) IN
       IF b.fetch
       THEN /\ pending' = Append(pending,
                   [Enter(c, "fetch") EXCEPT !.pc = "fetch",
                                             !.calls = @ + 1,
                                             !.input = b.input])
            /\ cur' = Idle
       ELSE /\ cur' = Send(c, b.res)
            /\ pending' = pending
    /\ UNCHANGED << APP_KEY, OPENAI_API_KEY, hits, probe >>

RemoveAt(seq, i) == SubSeq(seq, 1, i - 1) \o SubSeq(seq, i + 1, Len(seq))

\* JSON.parse(raw) is reached when the reply is a success whose body decodes
ReachesParse(reply) == reply.kind = "response" /\ reply.ok /\ reply.decodable

\* fetch settles for a suspended request: the handler resumes and answers
FetchSettles(replies) ==
    /\ Free
    /\ \E i \in 1..Len(pending), reply \in replies :
          LET c == [pending[i] EXCEPT !.reply = reply]
              d == IF ReachesParse(reply) THEN Enter(c, "parse") ELSE c IN
          /\ cur' = Send(d, HandleReply(reply))
          /\ pending' = RemoveAt(pending, i)
    /\ UNCHANGED << APP_KEY, OPENAI_API_KEY, hits, probe >>

\* the upstream replies the service is run against
Replies ==
    { FetchRejects,
      FetchNotOk(Str("a", 3)),
      FetchOkUndecodable,
      FetchOk(Data(TRUE, << Run("{", 1), Run("}", 1) >>, FALSE, << >>)),
      FetchOk(Data(TRUE, Str("a", RawSliceLen + 1), FALSE, << >>)) }

Next ==
    \/ Arrive(Requests)
    \/ ExpressJson
    \/ RateLimit
    \/ ResetWindow
    \/ Health
    \/ RequireAppKey
    \/ Analyze
    \/ FetchSettles(Replies)

Spec == Init /\ [][Next]_vars

\* the service under the load of two clients
RateReplies == { FetchNotOk(Str("a", 3)), FetchOk(Data(TRUE, Str("1", 1), FALSE, << >>)) }

NextRate ==
    \/ Arrive(RateRequests)
    \/ ExpressJson
    \/ RateLimit
    \/ ResetWindow
    \/ Health
    \/ RequireAppKey
    \/ Analyze
    \/ FetchSettles(RateReplies)

SpecRate == Init /\ [][NextRate]_vars

\* ------------------------------------------------------------------------
\* The handler after the await, against every shape of upstream reply
\* ------------------------------------------------------------------------
SeqsUpTo(S, n) == UNION { [1..k -> S] : k \in 0..n }

BlockSet ==
    { Block("output_text", TRUE, Str("{", 1)),
      Block("text", TRUE, Str("}", 1)),
      Block("refusal", TRUE, Str("}", 1)),
      Block("reasoning", TRUE, Str("a", 1)),
      Block("text", FALSE, << >>) }

ItemSet ==
    { Item(FALSE, << >>) }
    \cup { Item(TRUE, content) : content \in SeqsUpTo(BlockSet, MaxBlocks) }

DirectSet ==
    { [def |-> FALSE, s |-> << >>],
      [def |-> TRUE, s |-> << >>],
      [def |-> TRUE, s |-> << Run("{", 1), Run(" ", 1), Run("}", 1) >>],
      [def |-> TRUE, s |-> Str("1", 2)],
      [def |-> TRUE, s |-> Str("a", RawSliceLen + 1)] }

OutputSet ==
    { [isArray |-> FALSE, items |-> << >>] }
    \cup { [isArray |-> TRUE, items |-> items] : items \in SeqsUpTo(ItemSet, MaxItems) }

DataSet == [output_text : DirectSet, output : OutputSet]

AllReplies ==
    { FetchRejects, FetchNotOk(<< >>), FetchNotOk(Str("a", RawSliceLen + 1)),
      FetchOkUndecodable }
    \cup { FetchOk(data) : data \in DataSet }

InitReply ==
    /\ APP_KEY = "secret"
    /\ OPENAI_API_KEY = "sk"
    /\ hits = [s \in Sources |-> 0]
    /\ cur = Idle
    /\ pending = << >>
    /\ probe \in { [NoProbe EXCEPT !.stage = "settled", !.reply = r] : r \in AllReplies }

\* lines 105-138 applied to the reply
ApplyReply ==
    /\ probe.stage = "settled"
    /\ probe' = [probe EXCEPT
                     !.stage = "answered",
                     !.raw = IF ReachesParse(probe.reply)
                             THEN ExtractRaw(probe.reply.data) ELSE << >>,
                     !.res = HandleReply(probe.reply)]
    /\ UNCHANGED << APP_KEY, OPENAI_API_KEY, hits, cur, pending >>

SpecReply == InitReply /\ [][ApplyReply]_vars

\* ------------------------------------------------------------------------
\* Properties
\* ------------------------------------------------------------------------
Done == cur.pc = "done"

Entered(c, stage) == \E i \in 1..Len(c.trail) : c.trail[i] = stage

Precedes(trail, a, b) ==
    \E i, j \in 1..Len(trail) : i < j /\ trail[i] = a /\ trail[j] = b

IsPrefixOf(p, q) == Len(p) <= Len(q) /\ SubSeq(q, 1, Len(p)) = p

\* the requests in progress: the running one and the suspended ones
InProgress == { cur } \cup { pending[i] : i \in 1..Len(pending) }

\* the header does not carry the configured secret, or none is configured
BadKey(req) == APP_KEY = "undefined" \/ req.key # "secret"

\* the number of characters of s between its first and its last character
\* that is not blank, both included
Ink(s) == { i \in 1..Len(s) : s[i].n > 0 /\ s[i].ch \notin {" ", "\n"} }

RECURSIVE SumRuns(_, _, _)
SumRuns(s, from, to) ==
    IF from > to THEN 0 ELSE s[from].n + SumRuns(s, from + 1, to)

TrimmedLen(s) ==
    IF Ink(s) = {} THEN 0
    ELSE LET first == CHOOSE i \in Ink(s) : \A j \in Ink(s) : i <= j
             last == CHOOSE i \in Ink(s) : \A j \in Ink(s) : j <= i
         IN SumRuns(s, first, last)

\* the length of the text after trimming, 0 for a missing or falsy text
TextLen(t) == IF t.k = "string" THEN TrimmedLen(t.s) ELSE 0

\* C1, as stated: a POST /analyze request without the right key (or with no
\* secret configured) is always answered 401 { error: "Unauthorized" }
C1_Original ==
    (Done /\ cur.req.route = "analyze" /\ BadKey(cur.req))
        => cur.res = Json(401, [error |-> "Unauthorized"])

\* C1, amended: a POST /analyze request without the right key (or with no
\* secret configured) that the body parser accepted and the rate limiter
\* did not reject is answered 401 { error: "Unauthorized" } whatever its
\* text, never enters the handler and never causes an upstream call; the
\* only other answers are the body parser's 400 for a malformed body and the
\* rate limiter's 429
C1_Amended ==
    /\ \A c \in InProgress :
          (c.req.route = "analyze" /\ BadKey(c.req))
              => c.calls = 0 /\ ~Entered(c, "analyze") /\ c.pc # "fetch"
    /\ (Done /\ cur.req.route = "analyze" /\ BadKey(cur.req))
          => /\ cur.res.status \in {400, 401, 429}
             /\ cur.res.status = 400 <=> ~cur.req.body.ok
             /\ cur.res.status = 429 => cur.trail = << "express.json", "rateLimit" >>
             /\ cur.res.status = 401 =>
                   cur.res = Json(401, [error |-> "Unauthorized"])

C1_Witness ==
    /\ Done /\ cur.req.route = "analyze"
    /\ APP_KEY = "secret" /\ cur.req.key = "wrong"
    /\ cur.req.body.text = TextString(Str("a", 1))
    /\ cur.res = Json(401, [error |-> "Unauthorized"])

\* C2, as stated: GET /health is always answered 200 { ok: true }
C2_Original ==
    (Done /\ cur.req.route = "health") => cur.res = Json(200, [ok |-> TRUE])

\* C2, amended: GET /health is answered 200 { ok: true } under any key
\* header and any configuration of the secrets, unless the request is
\* rejected before the route: by the rate limiter (429, the source is over
\* its limit for the window) or by the body parser (400, malformed body)
C2_Amended ==
    (Done /\ cur.req.route = "health")
        => /\ cur.res.status \in {200, 400, 429}
           /\ cur.res.status = 400 <=> ~cur.req.body.ok
           /\ cur.res.status = 429 => cur.trail = << "express.json", "rateLimit" >>
           /\ cur.res.status = 200 => cur.res = Json(200, [ok |-> TRUE])
           /\ Entered(cur, "health") => cur.res = Json(200, [ok |-> TRUE])

C2_Witness ==
    /\ Done /\ cur.req.route = "health"
    /\ APP_KEY = "undefined" /\ cur.req.key = "wrong"
    /\ hits[cur.req.src] = RateMax
    /\ cur.res = Json(200, [ok |-> TRUE])

\* the running request is in the middleware ahead of the routes, and its
\* source has already had more than RateMax requests counted in this window
FurtherRequest ==
    cur.pc \in {"express.json", "rateLimit"} /\ hits[cur.req.src] > RateMax

\* C3, as stated: once a source has sent more than 20 requests in a window,
\* every further request of that source in the window is rejected by the
\* rate limiter
C3_Original ==
    [][(FurtherRequest /\ cur'.pc = "done") => cur'.res.status = 429]_vars

\* C3, amended: the rate limiter counts the requests that passed the body
\* parser.  A request that reaches it is rejected (429, before the key check
\* and the text checks, without an upstream call) exactly when its source
\* already has 20 or more requests counted in the current window; the count
\* of another source and the counts of earlier windows play no part.  A
\* further request with a malformed body is rejected by the body parser
\* instead and is not counted.  No request of a source that is over its
\* limit reaches the key check, the handler or the upstream API.
C3_Amended ==
    [][ /\ (cur.pc = "rateLimit" /\ cur'.pc # "rateLimit")
            => /\ hits' = [hits EXCEPT ![cur.req.src] = @ + 1]
               /\ (hits[cur.req.src] >= RateMax)
                     <=> (cur'.pc = "done" /\ cur'.res.status = 429)
               /\ (hits[cur.req.src] < RateMax)
                     <=> cur'.pc \in {"requireAppKey", "health"}
               /\ pending' = pending
        /\ (cur.pc = "express.json" /\ cur'.pc = "done")
            => /\ hits' = hits
               /\ cur'.res.status = 400
               /\ ~cur.req.body.ok
        /\ (FurtherRequest /\ cur'.pc = "done")
            => /\ cur'.res.status \in {400, 429}
               /\ cur'.calls = 0
               /\ ~Entered(cur', "requireAppKey")
               /\ ~Entered(cur', "analyze")
        /\ FurtherRequest => cur'.pc \in {"express.json", "rateLimit", "done"}
      ]_vars

C3_Witness ==
    /\ Done
    /\ cur.req.src = "ip1"
    /\ cur.req.route = "analyze" /\ cur.req.key = "secret" /\ APP_KEY = "secret"
    /\ cur.req.body.ok
    /\ hits["ip1"] = RateMax + 2
    /\ hits["ip2"] \in 1..RateMax
    /\ cur.res.status = 429
    /\ cur.trail = << "express.json", "rateLimit" >>

\* C4, as stated: a validated request whose upstream call rejects or
\* returns a non-success status is answered 502 with the error "OpenAI
\* request failed" and the upstream error text as details
C4_Original ==
    (Done /\ cur.calls = 1 /\ (cur.reply.kind = "reject" \/ ~cur.reply.ok))
        => /\ cur.res.status = 502
           /\ cur.res.val.error = "OpenAI request failed"

\* C4, amended: a validated request whose upstream call returns a
\* non-success status is answered 502 { error: "OpenAI request failed",
\* details: the raw upstream error text }; when the upstream call fails at
\* transport level (fetch rejects) the answer is 500 { error: "Server
\* error", details: the text of the exception }
C4_Amended ==
    (Done /\ cur.calls = 1)
        => /\ (cur.reply.kind = "response" /\ ~cur.reply.ok)
                => cur.res =
                     Json(502, [error |-> "OpenAI request failed",
                                details |-> [of |-> "upstream", s |-> cur.reply.errText]])
           /\ cur.reply.kind = "reject"
                => /\ cur.res.status = 500
                   /\ cur.res.val.error = "Server error"
                   /\ "details" \in DOMAIN cur.res.val

C4_Witness ==
    /\ Done /\ cur.calls = 1
    /\ cur.reply.kind = "response" /\ ~cur.reply.ok
    /\ cur.res.status = 502
    /\ cur.res.val.details.s = cur.reply.errText
    /\ StrLen(cur.reply.errText) > 0

\* C5: every non-success response has a JSON body with an error field
C5_ErrorBodiesAreJson ==
    (Done /\ cur.res.status >= 400)
        => (cur.res.fmt = "json" /\ "error" \in DOMAIN cur.res.val)

\* the text is a string, or missing or falsy (read as the empty string)
TextReadable(t) == t.k \in {"undefined", "falsy", "string"}

\* the request passed every validation step of POST /analyze
PassedAllSteps(req) ==
    /\ ~BadKey(req)
    /\ TextReadable(req.body.text)
    /\ TextLen(req.body.text) > 0
    /\ TextLen(req.body.text) <= MaxTextLen
    /\ OPENAI_API_KEY # "undefined"

\* C6: the validation steps of POST /analyze run in the order app key, text
\* empty after trim, text longer than 12 000, upstream credential, and the
\* first failing step decides the response (401, 400 required, 400 too
\* long, 500 misconfigured); the upstream API is called only for a request
\* that passed all four, and at most once
C6_ValidationOrder ==
    /\ \A c \in InProgress :
          /\ c.calls <= 1
          /\ (c.calls = 1 \/ c.pc = "fetch" \/ Entered(c, "fetch"))
                => (c.calls = 1 /\ c.req.route = "analyze" /\ PassedAllSteps(c.req))
    /\ (Done /\ Entered(cur, "requireAppKey"))
          => LET t == cur.req.body.text IN
             IF BadKey(cur.req)
             THEN cur.res = Json(401, [error |-> "Unauthorized"])
             ELSE IF ~TextReadable(t)
             THEN cur.calls = 0 /\ cur.res.status = 500
             ELSE IF TextLen(t) = 0
             THEN cur.res = Json(400, [error |-> "Le champ 'text' est requis."])
             ELSE IF TextLen(t) > MaxTextLen
             THEN /\ cur.res.status = 400
                  /\ cur.res # Json(400, [error |-> "Le champ 'text' est requis."])
                  /\ cur.res = TextTooLongRes
             ELSE IF OPENAI_API_KEY = "undefined"
             THEN /\ cur.res.status = 500
                  /\ cur.res.val =
                        [error |-> "Server misconfigured (missing OPENAI_API_KEY)"]
             ELSE cur.calls = 1 /\ Entered(cur, "fetch")

\* a request that fails step 3 and step 4 is answered by step 3
C6_Witness ==
    /\ Done /\ Entered(cur, "analyze")
    /\ OPENAI_API_KEY = "undefined"
    /\ TextLen(cur.req.body.text) > MaxTextLen
    /\ cur.res = TextTooLongRes
    /\ cur.calls = 0

\* C7, as stated: for an authenticated request, a text of length 12 001 or
\* more is answered 400 with the message about the limit, and a text of
\* exactly 12 000 characters passes the length check
C7_Original ==
    (Done /\ Entered(cur, "analyze") /\ cur.req.body.text.k = "string")
        => /\ StrLen(cur.req.body.text.s) >= MaxTextLen + 1 => cur.res = TextTooLongRes
           /\ StrLen(cur.req.body.text.s) = MaxTextLen => cur.res # TextTooLongRes

\* C7, amended: the length is the length of the text after trimming.  For
\* an authenticated request, a text whose trimmed length is 12 001 or more
\* is answered 400 with the message about the limit; a text whose trimmed
\* length is exactly 12 000 passes the length check and proceeds to the
\* next step (the credential check, then the upstream call)
C7_Amended ==
    /\ (Done /\ Entered(cur, "analyze") /\ cur.req.body.text.k = "string")
          => /\ TrimmedLen(cur.req.body.text.s) >= MaxTextLen + 1
                  => cur.res = TextTooLongRes
             /\ TrimmedLen(cur.req.body.text.s) = MaxTextLen
                  => /\ cur.res # TextTooLongRes
                     /\ IF OPENAI_API_KEY = "undefined"
                        THEN cur.res = Misconfigured
                        ELSE cur.calls = 1
    /\ \A i \in 1..Len(pending) :
          /\ TrimmedLen(pending[i].req.body.text.s) <= MaxTextLen
          /\ StrLen(pending[i].input) = TrimmedLen(pending[i].req.body.text.s)

C7_Witness ==
    /\ Done
    /\ cur.req.body.text.k = "string"
    /\ StrLen(cur.req.body.text.s) = MaxTextLen + 2
    /\ TrimmedLen(cur.req.body.text.s) = MaxTextLen
    /\ cur.calls = 1
    /\ StrLen(cur.input) = MaxTextLen

AnalyzeOrder ==
    << "express.json", "rateLimit", "requireAppKey", "analyze", "fetch", "parse" >>

\* C9, as stated: a request passes the app-key check before the rate-limit
\* check
C9_Original ==
    \A c \in InProgress :
        (c.req.route = "analyze" /\ Entered(c, "rateLimit"))
            => Precedes(c.trail, "requireAppKey", "rateLimit")

\* C9, amended: a request passes the rate-limit check before the
\* application-key check: the order of stages on the path of POST /analyze
\* is body parsing, rate-limit check, auth check, the Analyze Handler, the
\* upstream call, parsing
C9_Amended ==
    \A c \in InProgress :
        /\ c.pc # "idle" /\ c.req.route = "analyze"
              => IsPrefixOf(c.trail, AnalyzeOrder)
        /\ Entered(c, "requireAppKey")
              => Precedes(c.trail, "rateLimit", "requireAppKey")

C9_Witness ==
    /\ Done
    /\ cur.trail = AnalyzeOrder
    /\ cur.res.status = 200

\* r and s in canonical form: r is a prefix of s
StrPrefix(r, s) ==
    \/ r = << >>
    \/ /\ Len(r) <= Len(s)
       /\ \A i \in 1..(Len(r) - 1) : r[i] = s[i]
       /\ r[Len(r)].ch = s[Len(r)].ch
       /\ r[Len(r)].n <= s[Len(r)].n

Min(a, b) == IF a <= b THEN a ELSE b

\* the texts of the textual blocks of items i.. (blocks j.. of item i), in
\* order, each followed by a newline
RECURSIVE TextLines(_, _, _)
TextLines(items, i, j) ==
    IF i > Len(items) THEN << >>
    ELSE IF ~items[i].hasContent \/ j > Len(items[i].content)
         THEN TextLines(items, i + 1, 1)
    ELSE LET c == items[i].content[j]
             rest == TextLines(items, i, j + 1) IN
         IF c.type \in {"output_text", "text"}
         THEN (IF c.hasText THEN c.text ELSE << >>) \o << Run("\n", 1) >> \o rest
         ELSE rest

\* the newline-joined texts: the lines without the last newline
JoinedTexts(output) ==
    IF ~output.isArray THEN << >>
    ELSE LET lines == TextLines(output.items, 1, 1) IN
         IF lines = << >> THEN << >>
         ELSE Norm(SubSeq(lines, 1, Len(lines) - 1))

Answered == probe.stage = "answered"

SuccessReply == probe.reply.kind = "response" /\ probe.reply.ok

\* C8, as stated: after a success status the response is 200 with the
\* parsed value or 500 with the invalid-JSON error and the first 2 000
\* characters of the raw text; there is no other outcome
C8_Original ==
    (Answered /\ SuccessReply)
        => \/ probe.res.status = 200
           \/ /\ probe.res.status = 500
              /\ probe.res.val.error = "AI did not return valid JSON. Adjust prompt."

\* C8, amended: when the upstream call returns a success status and the
\* body of the reply decodes to a response object of the documented shape,
\* the response is decided by whether the raw text parses as JSON: 200 with
\* exactly the parsed value, or else 500 with the invalid-JSON error and a
\* raw field holding the first 2 000 characters of the raw text (all of it
\* when shorter); when the body of a success reply cannot be decoded, the
\* response is 500 { error: "Server error", details }
C8_Amended ==
    (Answered /\ SuccessReply)
        => IF ~probe.reply.decodable
           THEN /\ probe.res.status = 500
                /\ probe.res.val.error = "Server error"
           ELSE IF JsonValid(probe.raw)
           THEN probe.res = [status |-> 200, fmt |-> "json", val |-> JsonParse(probe.raw)]
           ELSE /\ probe.res.status = 500
                /\ probe.res.fmt = "json"
                /\ DOMAIN probe.res.val = {"error", "raw"}
                /\ probe.res.val.error = "AI did not return valid JSON. Adjust prompt."
                /\ StrPrefix(probe.res.val.raw, probe.raw)
                /\ StrLen(probe.res.val.raw) = Min(StrLen(probe.raw), RawSliceLen)

C8_Witness ==
    /\ Answered /\ SuccessReply /\ probe.reply.decodable
    /\ ~JsonValid(probe.raw)
    /\ StrLen(probe.raw) = RawSliceLen + 1
    /\ probe.res.status = 500
    /\ StrLen(probe.res.val.raw) = RawSliceLen

\* C10, as stated: the raw text is the direct output-text field whenever
\* the reply provides one, and otherwise the newline-joined texts of the
\* textual blocks of all output items, in order
C10_Original ==
    (Answered /\ SuccessReply /\ probe.reply.decodable)
        => probe.raw =
             IF probe.reply.data.output_text.def
             THEN Norm(probe.reply.data.output_text.s)
             ELSE JoinedTexts(probe.reply.data.output)

\* C10, amended: the raw text is the direct output-text field whenever the
\* reply provides a non-empty one; otherwise (the field is absent or is the
\* empty string) it is the newline-joined texts of the blocks of kind
\* "output_text" or "text" of all output items, in their original order
\* (the empty string when there is no output list)
C10_Amended ==
    (Answered /\ SuccessReply /\ probe.reply.decodable)
        => probe.raw =
             IF /\ probe.reply.data.output_text.def
                /\ probe.reply.data.output_text.s # << >>
             THEN Norm(probe.reply.data.output_text.s)
             ELSE JoinedTexts(probe.reply.data.output)

C10_Witness ==
    /\ Answered
    /\ ~probe.reply.data.output_text.def
    /\ probe.reply.data.output.isArray
    /\ Len(probe.reply.data.output.items) = 2
    /\ probe.raw = << Run("{", 1), Run("\n", 1), Run("}", 1) >>
    /\ probe.res.status = 200

====
